---- MODULE Spec2Model ----
(***************************************************************************)
(* The trooper of bampf (src/src/bampf/trooper.go): a cube of cells that   *)
(* shows the player's health.  A trooper of level L owns six panels and    *)
(* the corner/edge cubes of a (L+1)^3 arrangement; cells are attached to   *)
(* and detached from these boxes one at a time, a full box is drawn as a   *)
(* single merged piece and a full trooper as the single piece neo.         *)
(*                                                                         *)
(* Visual parts are modelled by where they are stored: a cube's cells is   *)
(* the list of its parts, each named by the (1-based) index of the sorted  *)
(* center it was placed at, or MergedCell for the single part of a full    *)
(* cube; slab, center and neo are TRUE when the pointer is not nil.  The    *)
(* field live of a cube, a panel and the trooper counts the parts it has    *)
(* added with AddPart and not yet removed with RemPart; the field faults    *)
(* collects the branches the code is not meant to reach.  Locations are in  *)
(* units of a quarter of the cube size (the qs of newCube), so that the     *)
(* centerOffset of newTrooper is 2.                                         *)
(***************************************************************************)
EXTENDS Integers, Sequences, FiniteSets, TLC

\* Largest trooper level explored.
MaxLevel == 2

\* Number of detach, detachCores and reset calls explored in one run.
MaxCalls == 2

\* The loss values detachCores is called with.
Losses == {0, 1, 9, 1000}

\* Largest trooper level explored together with health monitors.
MonLevel == 1

\* The ids monitors are registered under.
Monitors == {"game", "xpbar"}

\* The monitors that are registered.
Mons == {"m1", "m2"}

\* The level of the trooper of the player whose energy is explored.
PlayerLevel == 1

\* Number of energy calls explored in one run.
MaxEnergyCalls == 28

\* Number of calls explored in one run that mixes health and energy calls.
MaxPlayCalls == 3

\* Number of cloak and addCloakEnergy calls explored in one run of
\* updateEnergy and teleport calls.
MaxRechargeCalls == 2

\* Number of energy calls other than updateEnergy explored in one run of
\* updateEnergy calls.
MaxCloakCalls == 3

\* Number of attach and detach calls explored on the trooper whose panels
\* have four cubes each.
MaxPanelCalls == 20

\* The part of a merged (full) cube: placed at the cube's center, not at
\* one of its eight sorted cell centers 1..8.
MergedCell == 0

\* tr        the trooper (the fields of the struct that the calls read)
\* panicked  a call has ended in a run-time panic: the program has stopped
\* last      the latest call: its name, its argument, the trooper before it
\* calls     the number of detach, detachCores and reset calls made
\* premerge  the cell counts of tr.bits before the attach that merged the
\*           trooper, kept for the call that follows that attach, else <<>>
\* rt        the progress of a round trip: rt.up attach calls made on the
\*           empty trooper, then rt.down detach calls; or of a run of
\*           attach calls (phase "climb") in which rt.down more calls are
\*           left of the max - health calls the run may take
\* hms       the map tr.hms: the health monitor registered under each id
\* notes     for every id of hms, the healthUpdated calls healthChanged made
\*           for it during the latest call, in order: <<monitor, triple>>
\* ems       the map tr.ems: the energy monitor registered under each id
\* enotes    as notes, for the energyUpdated calls of energyChanged:
\*           <<monitor, (teleport energy, tmax, cloak energy, cmax)>>
VARIABLES tr, panicked, last, calls, premerge, rt, hms, notes, ems, enotes

vars == <<tr, panicked, last, calls, premerge, rt, hms, notes, ems, enotes>>

RECURSIVE cbox_attach(_), cbox_detach(_), cbox_reset(_, _)

----------------------------------------------------------------------------
(* cube *)

\* The offsets, in units of qs, of the eight centers newCube lists, in the
\* order of the list.
octants ==
    << <<-1, -1, -1>>, <<-1, -1, 1>>, <<-1, 1, -1>>, <<-1, 1, 1>>,
       <<1, -1, -1>>, <<1, -1, 1>>, <<1, 1, -1>>, <<1, 1, 1>> >>

\* c.centers holds the numbers 1 .. 8 of the centers in the order of the
\* list; center number k of a cube at <<x, y, z>> is the location below.
centerAt(at, k) ==
    <<at[1] + octants[k][1], at[2] + octants[k][2], at[3] + octants[k][3]>>

newCube(x, y, z) ==
    [kind |-> "cube", ccnt |-> 0, cmax |-> 8, cells |-> <<>>,
     slab |-> FALSE, cubes |-> <<>>, at |-> <<x, y, z>>,
     centers |-> <<1, 2, 3, 4, 5, 6, 7, 8>>, live |-> 0, faults |-> {}]

\* c.centers[c.ccnt-1] is, 1-based, the sorted center number c.ccnt: the
\* cell is named by that position of the list.
cube_addCell(c) ==
    IF c.ccnt < 1 \/ c.ccnt > Len(c.centers)
    THEN [c EXCEPT !.faults = @ \cup {"cube.addCell index"}]
    ELSE [c EXCEPT !.cells = Append(@, c.ccnt), !.live = @ + 1]

\* removeCell removing the first cell of the list instead of the last.
cube_removeCell_first(c) ==
    [c EXCEPT !.cells = SubSeq(@, 2, Len(@)), !.live = @ - 1]

\* removeCell dropping the cell from the list without RemPart.
cube_removeCell_noRemPart(c) ==
    [c EXCEPT !.cells = SubSeq(@, 1, Len(@) - 1)]

cube_removeCell(c) ==
    IF Len(c.cells) = 0
    THEN [c EXCEPT !.faults = @ \cup {"cube.removeCell index"}]
    ELSE [c EXCEPT !.cells = SubSeq(@, 1, Len(@) - 1), !.live = @ - 1]

RECURSIVE cube_trash(_)
cube_trash(c) ==
    IF Len(c.cells) > 0 THEN cube_trash(cube_removeCell(c)) ELSE c

cube_merge(c) ==
    [cube_trash(c) EXCEPT !.cells = Append(@, MergedCell), !.live = @ + 1]

----------------------------------------------------------------------------
(* csort and ssort *)

\* csort.Dtoc: the squared distance of v from the origin.
csort_Dtoc(v) == v[1] * v[1] + v[2] * v[2] + v[3] * v[3]

\* ssort.Dtoc: the squared length of the projection of v on the normal
\* <<x, y, z>>.
ssort_Dtoc(v, x, y, z) ==
    LET dot == v[1] * x + v[2] * y + v[3] * z
    IN  (x * dot) * (x * dot) + (y * dot) * (y * dot) + (z * dot) * (z * dot)

\* k put into the sorted list s behind every entry whose key is not larger.
RECURSIVE insert(_, _, _)
insert(s, k, key) ==
    IF s = <<>> THEN <<k>>
    ELSE IF key[k] < key[Head(s)] THEN <<k>> \o s
    ELSE <<Head(s)>> \o insert(Tail(s), k, key)

\* sort.Sort: the list s in ascending order of key.  The order sort.Sort
\* gives to entries of equal key is that of the library; here they keep the
\* order they had.
RECURSIVE sort_Sort(_, _)
sort_Sort(s, key) ==
    IF s = <<>> THEN <<>>
    ELSE insert(sort_Sort(SubSeq(s, 1, Len(s) - 1), key), s[Len(s)], key)

\* The cube c with its centers in the order sorted, after c.reset(startCount).
\* (sorted is bound by a set, so that the sort is done once, before reset
\* reads the cube.)
sortedReset(c, sorted, startCount) ==
    CHOOSE d \in {cbox_reset([c EXCEPT !.centers = s], startCount) :
                     s \in {sorted}} : TRUE

edgeSort(c, startCount) ==
    LET key == [k \in 1 .. 8 |-> csort_Dtoc(centerAt(c.at, k))]
    IN  sortedReset(c, sort_Sort(c.centers, key), startCount)

\* panelSort without the sort.
panelSort_noSort(c, rx, ry, rz, startCount) == cbox_reset(c, startCount)

panelSort(c, rx, ry, rz, startCount) ==
    LET key == [k \in 1 .. 8 |-> ssort_Dtoc(centerAt(c.at, k), rx, ry, rz)]
    IN  sortedReset(c, sort_Sort(c.centers, key), startCount)

----------------------------------------------------------------------------
(* panel *)

newPanel(x, y, z, level) ==
    [kind |-> "panel", ccnt |-> 0, cmax |-> (level - 1) * (level - 1) * 8,
     cells |-> <<>>, slab |-> FALSE, cubes |-> <<>>, at |-> <<x, y, z>>,
     centers |-> <<>>, live |-> 0, faults |-> {}]

\* The normal of the panel decides the sort; a cube no test fits is left
\* unsorted and empty.
addCube(p, x, y, z) ==
    LET pcx == p.at[1]
        pcy == p.at[2]
        pcz == p.at[3]
        c == newCube(x, y, z)
        c1 == IF (pcx > pcy /\ pcx > pcz) \/ (pcx < pcy /\ pcx < pcz)
              THEN panelSort(c, 1, 0, 0, 4)
              ELSE IF (pcy > pcx /\ pcy > pcz) \/ (pcy < pcx /\ pcy < pcz)
              THEN panelSort(c, 0, 1, 0, 4)
              ELSE IF (pcz > pcx /\ pcz > pcy) \/ (pcz < pcx /\ pcz < pcy)
              THEN panelSort(c, 0, 0, 1, 4)
              ELSE c
    IN  [p EXCEPT !.ccnt = @ + 4, !.cubes = Append(@, c1)]

\* addCell adding to the last cube that is not full.
panel_addCell_lastOpen(p) ==
    LET hits == {i \in 1 .. Len(p.cubes) : p.cubes[i].ccnt < p.cubes[i].cmax}
    IN  IF hits = {} THEN p
        ELSE LET i == CHOOSE i \in hits : \A j \in hits : j <= i
             IN  [p EXCEPT !.cubes[i] = cbox_attach(@)]

\* addCell adding to the first cube that is not full.
panel_addCell_firstOpen(p) ==
    LET hits == {i \in 1 .. Len(p.cubes) : p.cubes[i].ccnt < p.cubes[i].cmax}
    IN  IF hits = {} THEN p
        ELSE LET i == CHOOSE i \in hits : \A j \in hits : i <= j
             IN  [p EXCEPT !.cubes[i] = cbox_attach(@)]

\* The first (addeven, cube) pair, addeven outermost, with c.ccnt <= addeven.
\* p.cubes[0] of a panel without cubes is an index out of range; the loops
\* ending without a cube is the branch that should never be reached.
panel_addCell(p) ==
    IF Len(p.cubes) = 0
    THEN [p EXCEPT !.faults = @ \cup {"panel.addCell no cubes"}]
    ELSE LET hits == {h \in (0 .. p.cubes[1].cmax - 1) \X (1 .. Len(p.cubes)) :
                         p.cubes[h[2]].ccnt <= h[1]}
         IN  IF hits = {}
             THEN [p EXCEPT !.faults = @ \cup {"panel.addCell never reach here"}]
             ELSE LET h == CHOOSE h \in hits : \A g \in hits :
                               h[1] < g[1] \/ (h[1] = g[1] /\ h[2] <= g[2])
                  IN  [p EXCEPT !.cubes[h[2]] = cbox_attach(@)]

\* The first cube whose detach returns true.
panel_removeCell(p) ==
    LET hits == {i \in 1 .. Len(p.cubes) :
                    p.cubes[i].ccnt > 0 /\ p.cubes[i].ccnt <= p.cubes[i].cmax}
    IN  IF hits = {}
        THEN [p EXCEPT !.faults = @ \cup {"panel.removeCell never reach here"}]
        ELSE LET i == CHOOSE i \in hits : \A j \in hits : i <= j
             IN  [p EXCEPT !.cubes[i] = cbox_detach(@)]

\* trash removing the slab only.
panel_trash_keepCubes(p) ==
    [p EXCEPT !.slab = FALSE, !.live = IF p.slab THEN @ - 1 ELSE @]

panel_trash(p) ==
    [p EXCEPT !.slab = FALSE,
              !.live = IF p.slab THEN @ - 1 ELSE @,
              !.cubes = [i \in 1 .. Len(p.cubes) |-> cbox_reset(p.cubes[i], 0)]]

\* merge without the slab.
panel_merge_noSlab(p) == panel_trash(p)

panel_merge(p) == [panel_trash(p) EXCEPT !.slab = TRUE, !.live = @ + 1]

----------------------------------------------------------------------------
(* box & cbox *)

trashc(c) == IF c.kind = "panel" THEN panel_trash(c) ELSE cube_trash(c)

mergec(c) == IF c.kind = "panel" THEN panel_merge(c) ELSE cube_merge(c)

addc(c) == IF c.kind = "panel" THEN panel_addCell(c) ELSE cube_addCell(c)

remc(c) == IF c.kind = "panel" THEN panel_removeCell(c) ELSE cube_removeCell(c)

\* attaches without the test against cmax.
attaches_noUpper(c) == c.ccnt >= 0

\* The value cbox.attach returns.
attaches(c) == c.ccnt >= 0 /\ c.ccnt < c.cmax

\* detaches with its lower test off by one.
detaches_offByOne(c) == c.ccnt >= 0 /\ c.ccnt <= c.cmax

\* The value cbox.detach returns.
detaches(c) == c.ccnt > 0 /\ c.ccnt <= c.cmax

cbox_attach(c) ==
    IF attaches(c)
    THEN LET c1 == [c EXCEPT !.ccnt = @ + 1]
         IN  IF c1.ccnt = c1.cmax THEN mergec(c1) ELSE addc(c1)
    ELSE c

\* The loop of reset: n calls of attach.  (cmax is never negative: reading c
\* on entry keeps the evaluation shallow.)
RECURSIVE attachTimes(_, _)
attachTimes(c, n) ==
    IF n > 0 /\ c.cmax >= 0 THEN attachTimes(cbox_attach(c), n - 1) ELSE c

cbox_reset(c, cellCount) ==
    attachTimes([trashc(c) EXCEPT !.ccnt = 0],
                IF cellCount > c.cmax THEN c.cmax ELSE cellCount)

\* detach taking a cell from a box that has none.
cbox_detach_noGuard(c) ==
    IF c.ccnt > 0 /\ c.ccnt = c.cmax
    THEN cbox_reset(c, c.cmax - 1)
    ELSE [remc(c) EXCEPT !.ccnt = @ - 1]

\* detach taking a cell from a full box without the reset that shows its
\* cells again.
cbox_detach_noReset(c) ==
    IF detaches(c) THEN [remc(c) EXCEPT !.ccnt = @ - 1] ELSE c

cbox_detach(c) ==
    IF detaches(c)
    THEN IF c.ccnt = c.cmax
         THEN cbox_reset(c, c.cmax - 1)
         ELSE [remc(c) EXCEPT !.ccnt = @ - 1]
    ELSE c

----------------------------------------------------------------------------
(* trooper *)

\* outer seeing the low side only.
outer_lowOnly(v, level) == v = 0

\* cx is on the outside of the (level+1)^3 arrangement.
outer(v, level) == v = 0 \/ v = level

\* One pass of the innermost loop body of newTrooper at (cx, cy, cz).  The
\* locations x, y, z are mx, my, mz times the positive centerOffset, so they
\* compare as mx, my, mz do, and are 2 mx, 2 my, 2 mz in units of qs.
place(bits, level, cx, cy, cz) ==
    LET x == 2 * cx - level
        y == 2 * cy - level
        z == 2 * cz - level
        ox == outer(cx, level)
        oy == outer(cy, level)
        oz == outer(cz, level)
        panelOf == IF cx = level /\ x > y /\ x > z THEN 1
                   ELSE IF cx = 0 /\ x < y /\ x < z THEN 2
                   ELSE IF cy = level /\ y > x /\ y > z THEN 3
                   ELSE IF cy = 0 /\ y < x /\ y < z THEN 4
                   ELSE IF cz = level /\ z > x /\ z > y THEN 5
                   ELSE IF cz = 0 /\ z < x /\ z < y THEN 6
                   ELSE 0
        newCells == IF ox /\ oy /\ oz THEN 1
                    ELSE IF (ox /\ oy) \/ (ox /\ oz) \/ (oy /\ oz) THEN 2
                    ELSE 0
    IN  IF newCells > 0
        THEN Append(bits, edgeSort(newCube(2 * x, 2 * y, 2 * z), newCells))
        ELSE IF (ox \/ oy \/ oz) /\ panelOf > 0
             THEN [bits EXCEPT ![panelOf] = addCube(@, 2 * x, 2 * y, 2 * z)]
             ELSE bits

\* The three nested loops of newTrooper, cx outermost; k counts the passes.
\* (bits holds the six panels from the start: reading it on entry keeps the
\* evaluation shallow.)
RECURSIVE placeAll(_, _, _)
placeAll(bits, level, k) ==
    LET n == level + 1
    IN  IF k >= n * n * n \/ Len(bits) < 6 THEN bits
        ELSE placeAll(place(bits, level, k \div (n * n), (k \div n) % n, k % n),
                      level, k + 1)

addCenter(t) ==
    IF t.lvl > 0 THEN [t EXCEPT !.center = TRUE, !.live = @ + 1] ELSE t

newTrooper(level) ==
    LET t0 == [lvl |-> level, bits |-> <<>>, ipos |-> <<>>,
               center |-> FALSE, neo |-> FALSE,
               mid |-> level * level * level * 8
                       - (level - 1) * (level - 1) * (level - 1) * 8,
               cloaked |-> FALSE, cloakEnergy |-> 0, cemax |-> 1000,
               teleportEnergy |-> 0, temax |-> 1000, noises |-> {},
               live |-> 0]
        \* panelCenter is level times centerOffset.
        pc == 2 * level
    IN  IF level = 0
        THEN [t0 EXCEPT !.bits = <<edgeSort(newCube(0, 0, 0), 1)>>]
        ELSE LET panels == <<newPanel(pc, 0, 0, level), newPanel(-pc, 0, 0, level),
                             newPanel(0, pc, 0, level), newPanel(0, -pc, 0, level),
                             newPanel(0, 0, pc, level), newPanel(0, 0, -pc, level)>>
                 t1 == addCenter([t0 EXCEPT !.bits = placeAll(panels, level, 0)])
             IN  [t1 EXCEPT !.ipos = [i \in 1 .. Len(t1.bits) |-> t1.bits[i].ccnt]]

\* The trooper newTrooper makes, for every level explored.
constructed == [level \in 0 .. MaxLevel + 1 |-> newTrooper(level)]

fullHealth(t) == t.neo

RECURSIVE sumCcnt(_, _)
sumCcnt(bits, i) ==
    IF i > Len(bits) THEN 0 ELSE bits[i].ccnt + sumCcnt(bits, i + 1)

\* health returns <<health, mid, max>>.
health(t) ==
    LET l0 == (t.lvl - 1) * 2
        l1 == t.lvl * 2
        l2 == (t.lvl + 1) * 2
        min == l0 * l0 * l0
    IN  <<sumCcnt(t.bits, 1), l1 * l1 * l1 - min, l2 * l2 * l2 - min>>

\* RemPart of a part that is nil removes nothing.
trooper_trash(t) ==
    [t EXCEPT !.bits = [i \in 1 .. Len(t.bits) |-> trashc(t.bits[i])],
              !.center = FALSE,
              !.neo = FALSE,
              !.live = @ - (IF t.center THEN 1 ELSE 0) - (IF t.neo THEN 1 ELSE 0)]

\* merge without the call of trash.
trooper_merge_noTrash(t) ==
    addCenter([t EXCEPT !.neo = TRUE, !.live = @ + 1])

\* merge without the call of addCenter.
trooper_merge_noCenter(t) ==
    [trooper_trash(t) EXCEPT !.neo = TRUE, !.live = @ + 1]

trooper_merge(t) ==
    addCenter([trooper_trash(t) EXCEPT !.neo = TRUE, !.live = @ + 1])

\* demerge detaching from the last box instead of the first.
trooper_demerge_lastBox(t) ==
    LET t1 == addCenter(trooper_trash(t))
        t2 == [t1 EXCEPT !.bits = [i \in 1 .. Len(t1.bits) |->
                                      cbox_reset(t1.bits[i], t1.bits[i].cmax)]]
    IN  [t2 EXCEPT !.bits[Len(t2.bits)] = cbox_detach(@)]

trooper_demerge(t) ==
    LET t1 == addCenter(trooper_trash(t))
        t2 == [t1 EXCEPT !.bits = [i \in 1 .. Len(t1.bits) |->
                                      cbox_reset(t1.bits[i], t1.bits[i].cmax)]]
    IN  [t2 EXCEPT !.bits[1] = cbox_detach(@)]

\* reset indexes tr.ipos with every index of tr.bits.
reset_panics(t) == Len(t.ipos) < Len(t.bits)

\* reset giving every box the cells of the first box.
trooper_reset_firstIpos(t) ==
    LET t1 == addCenter(trooper_trash(t))
    IN  IF reset_panics(t) THEN t1
        ELSE [t1 EXCEPT !.bits = [i \in 1 .. Len(t1.bits) |->
                                     cbox_reset(t1.bits[i], t1.ipos[1])]]

trooper_reset(t) ==
    LET t1 == addCenter(trooper_trash(t))
    IN  IF reset_panics(t) THEN t1
        ELSE [t1 EXCEPT !.bits = [i \in 1 .. Len(t1.bits) |->
                                     cbox_reset(t1.bits[i], t1.ipos[i])]]

\* The index of the first box of tr.bits, from i on, whose attach returns
\* true; 0 when there is none.
RECURSIVE firstAttach(_, _)
firstAttach(bits, i) ==
    IF i > Len(bits) THEN 0
    ELSE IF attaches(bits[i]) THEN i
    ELSE firstAttach(bits, i + 1)

\* The same for detach.
RECURSIVE firstDetach(_, _)
firstDetach(bits, i) ==
    IF i > Len(bits) THEN 0
    ELSE IF detaches(bits[i]) THEN i
    ELSE firstDetach(bits, i + 1)

trooper_attach(t) ==
    LET i == firstAttach(t.bits, 1)
    IN  IF i = 0 THEN t
        ELSE LET t1 == [t EXCEPT !.bits[i] = cbox_attach(@)]
                 h == health(t1)
             IN  IF h[1] = h[3] /\ ~t1.neo THEN trooper_merge(t1) ELSE t1

\* The loop of detach taking the cell from the last box that has one.
detachFirst_lastBox(t) ==
    LET hits == {i \in 1 .. Len(t.bits) : detaches(t.bits[i])}
    IN  IF hits = {} THEN t
        ELSE LET i == CHOOSE i \in hits : \A j \in hits : j <= i
             IN  [t EXCEPT !.bits[i] = cbox_detach(@)]

\* The loop of detach and of detachCores over tr.bits.
detachFirst(t) ==
    LET i == firstDetach(t.bits, 1)
    IN  IF i = 0 THEN t ELSE [t EXCEPT !.bits[i] = cbox_detach(@)]

\* detach with the test of tr.neo inverted.
trooper_detach_wrongNeoTest(t) ==
    IF ~t.neo THEN trooper_demerge(t) ELSE detachFirst(t)

trooper_detach(t) == IF t.neo THEN trooper_demerge(t) ELSE detachFirst(t)

\* One pass of the loop of detachCores.
detachPass(t) == IF t.neo THEN trooper_demerge(t) ELSE detachFirst(t)

\* cnt passes of the loop of detachCores, one after the other.  The passes
\* are split in two halves, and t is read on entry (its level is never
\* negative), so that the evaluation of a long loop stays shallow.
RECURSIVE detachLoop(_, _)
detachLoop(t, cnt) ==
    IF cnt <= 0 \/ t.lvl < 0 THEN t
    ELSE IF cnt = 1 THEN detachPass(t)
    ELSE detachLoop(detachLoop(t, cnt \div 2), cnt - cnt \div 2)

trooper_detachCores(t, loss) ==
    IF loss <= 0 THEN t
    ELSE LET h == health(t)[1]
         IN  detachLoop(t, IF loss > h THEN h ELSE loss)

----------------------------------------------------------------------------
(* healthMonitor *)

\* The map without entries.
NoMonitors == [id \in {} |-> id]

\* No monitor of the map h has been called.
NoNotes(h) == [id \in DOMAIN h |-> <<>>]

\* healthChanged calls healthUpdated of the monitor of every entry of h once
\* with the triple; q holds the calls made before.
healthChanged(h, q, triple) ==
    [id \in DOMAIN h |-> Append(q[id], <<h[id], triple>>)]

\* monitorHealth leaving the monitor an id already has.
monitorHealth_keepsFirst(h, id, mon) ==
    [k \in DOMAIN h \cup {id} |-> IF k \in DOMAIN h THEN h[k] ELSE mon]

\* tr.hms[id] = mon
monitorHealth(h, id, mon) ==
    [k \in DOMAIN h \cup {id} |-> IF k = id THEN mon ELSE h[k]]

\* delete(tr.hms, id)
ignoreHealth(h, id) == [k \in DOMAIN h \ {id} |-> h[k]]

\* The healthUpdated calls of attach: the triple is read after the attach of
\* the box and before the merge of the trooper.
attach_notes(t, h) ==
    LET i == firstAttach(t.bits, 1)
    IN  IF i = 0 THEN NoNotes(h)
        ELSE healthChanged(h, NoNotes(h),
                           health([t EXCEPT !.bits[i] = cbox_attach(@)]))

\* The healthUpdated calls of detach.
detach_notes(t, h) ==
    IF t.neo THEN healthChanged(h, NoNotes(h), health(trooper_demerge(t)))
    ELSE IF firstDetach(t.bits, 1) = 0 THEN NoNotes(h)
    ELSE healthChanged(h, NoNotes(h), health(detachFirst(t)))

\* detachCores calling healthChanged twice.
detachCores_notes_twice(t1, loss, h) ==
    IF loss <= 0 THEN NoNotes(h)
    ELSE healthChanged(h, healthChanged(h, NoNotes(h), health(t1)), health(t1))

\* The healthUpdated calls of detachCores(loss), the loop of which has left
\* the trooper t1.
detachCores_notes(t1, loss, h) ==
    IF loss <= 0 THEN NoNotes(h)
    ELSE healthChanged(h, NoNotes(h), health(t1))

\* The healthUpdated calls of reset: none when it panics.
reset_notes(t, h) ==
    IF reset_panics(t) THEN NoNotes(h)
    ELSE healthChanged(h, NoNotes(h), health(trooper_reset(t)))

----------------------------------------------------------------------------
(* energy *)

\* The sounds makePlayer of level.go gives the trooper of the player, the
\* only trooper whose energy is used.
PlayerNoises == {"teleport", "fetch", "cloak", "decloak", "collide"}

makePlayer(levelNum) == [newTrooper(levelNum) EXCEPT !.noises = PlayerNoises]

\* energy returns <<teng, tmax, ceng, cmax>>.
energy(t) ==
    <<t.teleportEnergy, t.temax,
      IF t.cloakEnergy > t.cemax THEN t.cemax ELSE t.cloakEnergy, t.cemax>>

\* No monitor of the map e has been called.
NoEnergyNotes(e) == [id \in DOMAIN e |-> <<>>]

\* energyChanged calls energyUpdated of the monitor of every entry of e once
\* with what energy() returns for t.
energyChanged(e, t) == [id \in DOMAIN e |-> << <<e[id], energy(t)>> >>]

\* tr.ems[id] = mon
monitorEnergy(e, id, mon) ==
    [k \in DOMAIN e \cup {id} |-> IF k = id THEN mon ELSE e[k]]

\* delete(tr.ems, id)
ignoreEnergy(e, id) == [k \in DOMAIN e \ {id} |-> e[k]]

\* addCloakEnergy filling the cloak energy up to cemax.
addCloakEnergy_refill(t) == [t EXCEPT !.cloakEnergy = t.cemax]

\* addCloakEnergy without the clamp to cemax.
addCloakEnergy_noClamp(t) == [t EXCEPT !.cloakEnergy = @ + 100]

addCloakEnergy(t) ==
    LET ce == t.cloakEnergy + 100
    IN  [t EXCEPT !.cloakEnergy = IF ce > t.cemax THEN t.cemax ELSE ce]

addCloakEnergy_notes(t, e) == energyChanged(e, addCloakEnergy(t))

\* cloak plays a sound of tr.noises in both of its branches: a missing sound
\* is a nil SoundMaker, and the call of its method panics.
cloak_panics(t, useCloak) ==
    \/ useCloak /\ t.cloakEnergy > 0 /\ "cloak" \notin t.noises
    \/ ~useCloak /\ "decloak" \notin t.noises

\* cloak(true) without the test of the cloak energy.
cloak_noEnergyTest(t, useCloak) == [t EXCEPT !.cloaked = useCloak]

cloak(t, useCloak) ==
    IF useCloak /\ t.cloakEnergy > 0 THEN [t EXCEPT !.cloaked = TRUE]
    ELSE IF ~useCloak THEN [t EXCEPT !.cloaked = FALSE]
    ELSE t

\* The value teleport returns.
teleports(t) == t.teleportEnergy >= t.temax

teleport_panics(t) == teleports(t) /\ "teleport" \notin t.noises

\* teleport using the energy whenever there is any.
teleport_anyEnergy(t) ==
    IF t.teleportEnergy > 0 THEN [t EXCEPT !.teleportEnergy = 0] ELSE t

teleport(t) == IF teleports(t) THEN [t EXCEPT !.teleportEnergy = 0] ELSE t

teleport_notes(t, e) ==
    IF teleports(t) THEN energyChanged(e, teleport(t)) ELSE NoEnergyNotes(e)

\* The value of change at the end of updateEnergy.
updateEnergy_change(t) == t.teleportEnergy < t.temax \/ t.cloaked

updateEnergy_panics(t) ==
    t.cloaked /\ t.cloakEnergy - 4 <= 0 /\ "decloak" \notin t.noises

\* updateEnergy leaving the cloak on when the cloak energy is used up.
updateEnergy_keepsCloak(t) ==
    LET t1 == IF t.teleportEnergy < t.temax
              THEN [t EXCEPT !.teleportEnergy = @ + 1] ELSE t
    IN  IF t1.cloaked
        THEN LET t2 == [t1 EXCEPT !.cloakEnergy = @ - 4]
             IN  IF t2.cloakEnergy <= 0 THEN [t2 EXCEPT !.cloakEnergy = 0]
                 ELSE t2
        ELSE t1

\* updateEnergy using one unit of cloak energy where the code uses four.
updateEnergy_drainsByOne(t) ==
    LET t1 == IF t.teleportEnergy < t.temax
              THEN [t EXCEPT !.teleportEnergy = @ + 1] ELSE t
    IN  IF t1.cloaked
        THEN LET t2 == [t1 EXCEPT !.cloakEnergy = @ - 1]
             IN  IF t2.cloakEnergy <= 0
                 THEN cloak([t2 EXCEPT !.cloakEnergy = 0], FALSE)
                 ELSE t2
        ELSE t1

\* updateEnergy recharging the teleport energy only while the cloak is off.
updateEnergy_cloakStopsRecharge(t) ==
    IF t.cloaked
    THEN LET t2 == [t EXCEPT !.cloakEnergy = @ - 4]
         IN  IF t2.cloakEnergy <= 0
             THEN cloak([t2 EXCEPT !.cloakEnergy = 0], FALSE)
             ELSE t2
    ELSE IF t.teleportEnergy < t.temax
         THEN [t EXCEPT !.teleportEnergy = @ + 1] ELSE t

updateEnergy(t) ==
    LET t1 == IF t.teleportEnergy < t.temax
              THEN [t EXCEPT !.teleportEnergy = @ + 1] ELSE t
    IN  IF t1.cloaked
        THEN LET t2 == [t1 EXCEPT !.cloakEnergy = @ - 4]
             IN  IF t2.cloakEnergy <= 0
                 THEN cloak([t2 EXCEPT !.cloakEnergy = 0], FALSE)
                 ELSE t2
        ELSE t1

updateEnergy_notes(t, e) ==
    IF updateEnergy_change(t) THEN energyChanged(e, updateEnergy(t))
    ELSE NoEnergyNotes(e)

\* resetEnergy resetting the health as well.
resetEnergy_andHealth(t) ==
    trooper_reset([t EXCEPT !.teleportEnergy = t.temax, !.cloakEnergy = 1000])

resetEnergy(t) == [t EXCEPT !.teleportEnergy = t.temax, !.cloakEnergy = 1000]

\* resetEnergy does not call energyChanged.
resetEnergy_notes(t, e) == NoEnergyNotes(e)

----------------------------------------------------------------------------------------------------------------------------------------
(* The trooper under the calls of the game: the level is fixed when the    *)
(* trooper is made, attach is called freely, and at most MaxCalls calls of  *)
(* detach, detachCores and reset are made.                                  *)

\* The cell count of every box of tr.bits.
Counts(t) == [i \in 1 .. Len(t.bits) |-> t.bits[i].ccnt]

NoRoundTrip == [phase |-> "off", up |-> 0, down |-> 0]

Init ==
    \E level \in 0 .. MaxLevel :
        /\ tr = newTrooper(level)
        /\ panicked = FALSE
        /\ last = [op |-> "newTrooper", arg |-> level, pre |-> newTrooper(level)]
        /\ calls = 0
        /\ premerge = <<>>
        /\ rt = NoRoundTrip
        /\ hms = NoMonitors
        /\ notes = NoNotes(NoMonitors)
        /\ ems = NoMonitors
        /\ enotes = NoEnergyNotes(NoMonitors)

Attach ==
    /\ ~panicked
    /\ tr' = trooper_attach(tr)
    /\ last' = [op |-> "attach", arg |-> 0, pre |-> tr]
    /\ premerge' = IF ~tr.neo /\ tr'.neo THEN Counts(tr) ELSE <<>>
    /\ notes' = attach_notes(tr, hms)
    /\ enotes' = NoEnergyNotes(ems)
    /\ UNCHANGED <<panicked, calls, rt, hms, ems>>

Detach ==
    /\ ~panicked
    /\ calls < MaxCalls
    /\ tr' = trooper_detach(tr)
    /\ last' = [op |-> "detach", arg |-> 0, pre |-> tr]
    /\ calls' = calls + 1
    /\ premerge' = IF last.op = "attach" THEN premerge ELSE <<>>
    /\ notes' = detach_notes(tr, hms)
    /\ enotes' = NoEnergyNotes(ems)
    /\ UNCHANGED <<panicked, rt, hms, ems>>

DetachCores ==
    /\ ~panicked
    /\ calls < MaxCalls
    /\ \E loss \in Losses :
          /\ tr' = trooper_detachCores(tr, loss)
          /\ last' = [op |-> "detachCores", arg |-> loss, pre |-> tr]
          /\ notes' = detachCores_notes(tr', loss, hms)
    /\ calls' = calls + 1
    /\ premerge' = <<>>
    /\ enotes' = NoEnergyNotes(ems)
    /\ UNCHANGED <<panicked, rt, hms, ems>>

Reset ==
    /\ ~panicked
    /\ calls < MaxCalls
    /\ tr' = trooper_reset(tr)
    /\ panicked' = reset_panics(tr)
    /\ last' = [op |-> "reset", arg |-> 0, pre |-> tr]
    /\ calls' = calls + 1
    /\ premerge' = <<>>
    /\ notes' = reset_notes(tr, hms)
    /\ enotes' = NoEnergyNotes(ems)
    /\ UNCHANGED <<rt, hms, ems>>

Next == Attach \/ Detach \/ DetachCores \/ Reset

Spec == Init /\ [][Next]_vars

----------------------------------------------------------------------------
(* The troopers of the levels that are played: level 1 and up, as far as    *)
(* the first level whose panels have more than one cube.                    *)

PlayableInit ==
    \E level \in 1 .. MaxLevel + 1 :
        /\ tr = newTrooper(level)
        /\ panicked = FALSE
        /\ last = [op |-> "newTrooper", arg |-> level, pre |-> newTrooper(level)]
        /\ calls = 0
        /\ premerge = <<>>
        /\ rt = NoRoundTrip
        /\ hms = NoMonitors
        /\ notes = NoNotes(NoMonitors)
        /\ ems = NoMonitors
        /\ enotes = NoEnergyNotes(NoMonitors)

SpecPlayable == PlayableInit /\ [][Next]_vars

----------------------------------------------------------------------------
(* A round trip: the new trooper is emptied by one detachCores call, then   *)
(* attach is called rt.up times and after that detach rt.down times, at     *)
(* most as often as attach was.                                             *)

RTInit ==
    \E level \in 0 .. MaxLevel :
        /\ tr = newTrooper(level)
        /\ panicked = FALSE
        /\ last = [op |-> "newTrooper", arg |-> level, pre |-> newTrooper(level)]
        /\ calls = 0
        /\ premerge = <<>>
        /\ rt = [phase |-> "new", up |-> 0, down |-> 0]
        /\ hms = NoMonitors
        /\ notes = NoNotes(NoMonitors)
        /\ ems = NoMonitors
        /\ enotes = NoEnergyNotes(NoMonitors)

RTEmpty ==
    /\ rt.phase = "new"
    /\ tr' = trooper_detachCores(tr, health(tr)[1])
    /\ last' = [op |-> "detachCores", arg |-> health(tr)[1], pre |-> tr]
    /\ rt' = [rt EXCEPT !.phase = "up"]
    /\ notes' = detachCores_notes(tr', health(tr)[1], hms)
    /\ enotes' = NoEnergyNotes(ems)
    /\ UNCHANGED <<panicked, calls, premerge, hms, ems>>

RTAttach ==
    /\ rt.phase = "up"
    /\ rt.up < health(tr)[3]
    /\ tr' = trooper_attach(tr)
    /\ last' = [op |-> "attach", arg |-> 0, pre |-> tr]
    /\ rt' = [rt EXCEPT !.up = @ + 1]
    /\ notes' = attach_notes(tr, hms)
    /\ enotes' = NoEnergyNotes(ems)
    /\ UNCHANGED <<panicked, calls, premerge, hms, ems>>

RTDetach ==
    /\ rt.phase \in {"up", "down"}
    /\ rt.down < rt.up
    /\ tr' = trooper_detach(tr)
    /\ last' = [op |-> "detach", arg |-> 0, pre |-> tr]
    /\ rt' = [rt EXCEPT !.phase = "down", !.down = @ + 1]
    /\ notes' = detach_notes(tr, hms)
    /\ enotes' = NoEnergyNotes(ems)
    /\ UNCHANGED <<panicked, calls, premerge, hms, ems>>

RTNext == RTEmpty \/ RTAttach \/ RTDetach

SpecRT == RTInit /\ [][RTNext]_vars

----------------------------------------------------------------------------
(* A run of attach calls: after any calls of the game on a trooper of a     *)
(* level that is played, only attach is called, as when the player fetches  *)
(* one core after the other, until the trooper is merged or max - health    *)
(* calls, counted from the start of the run, have been made.                *)

ClimbInit ==
    \E level \in 1 .. MaxLevel :
        /\ tr = newTrooper(level)
        /\ panicked = FALSE
        /\ last = [op |-> "newTrooper", arg |-> level, pre |-> newTrooper(level)]
        /\ calls = 0
        /\ premerge = <<>>
        /\ rt = NoRoundTrip
        /\ hms = NoMonitors
        /\ notes = NoNotes(NoMonitors)
        /\ ems = NoMonitors
        /\ enotes = NoEnergyNotes(NoMonitors)

ClimbBefore == rt.phase = "off" /\ Next

ClimbStart ==
    /\ rt.phase = "off"
    /\ ~panicked
    /\ rt' = [phase |-> "climb", up |-> 0, down |-> health(tr)[3] - health(tr)[1]]
    /\ last' = [op |-> "fullHealth", arg |-> 0, pre |-> tr]
    /\ premerge' = <<>>
    /\ notes' = NoNotes(hms)
    /\ enotes' = NoEnergyNotes(ems)
    /\ UNCHANGED <<tr, panicked, calls, hms, ems>>

ClimbAttach ==
    /\ rt.phase = "climb"
    /\ ~fullHealth(tr)
    /\ rt.down > 0
    /\ tr' = trooper_attach(tr)
    /\ last' = [op |-> "attach", arg |-> 0, pre |-> tr]
    /\ rt' = [rt EXCEPT !.up = @ + 1, !.down = @ - 1]
    /\ premerge' = <<>>
    /\ notes' = attach_notes(tr, hms)
    /\ enotes' = NoEnergyNotes(ems)
    /\ UNCHANGED <<panicked, calls, hms, ems>>

ClimbNext == ClimbBefore \/ ClimbStart \/ ClimbAttach

SpecClimb == ClimbInit /\ [][ClimbNext]_vars /\ WF_vars(ClimbAttach)

----------------------------------------------------------------------------
(* The trooper with health monitors: monitors are registered and removed    *)
(* between the calls of the game.                                           *)

MonInit ==
    \E level \in 0 .. MonLevel :
        /\ tr = newTrooper(level)
        /\ panicked = FALSE
        /\ last = [op |-> "newTrooper", arg |-> level, pre |-> newTrooper(level)]
        /\ calls = 0
        /\ premerge = <<>>
        /\ rt = NoRoundTrip
        /\ hms = NoMonitors
        /\ notes = NoNotes(NoMonitors)
        /\ ems = NoMonitors
        /\ enotes = NoEnergyNotes(NoMonitors)

MonitorHealth ==
    /\ ~panicked
    /\ \E id \in Monitors, mon \in Mons :
          /\ hms' = monitorHealth(hms, id, mon)
          /\ last' = [op |-> "monitorHealth", arg |-> 0, pre |-> tr,
                      id |-> id, mon |-> mon, maps |-> <<hms, ems>>]
    /\ notes' = NoNotes(hms')
    /\ premerge' = <<>>
    /\ enotes' = NoEnergyNotes(ems)
    /\ UNCHANGED <<tr, panicked, calls, rt, ems>>

IgnoreHealth ==
    /\ ~panicked
    /\ \E id \in Monitors :
          /\ hms' = ignoreHealth(hms, id)
          /\ last' = [op |-> "ignoreHealth", arg |-> 0, pre |-> tr,
                      id |-> id, maps |-> <<hms, ems>>]
    /\ notes' = NoNotes(hms')
    /\ premerge' = <<>>
    /\ enotes' = NoEnergyNotes(ems)
    /\ UNCHANGED <<tr, panicked, calls, rt, ems>>

MonNext ==
    Attach \/ Detach \/ DetachCores \/ Reset \/ MonitorHealth \/ IgnoreHealth

SpecMon == MonInit /\ [][MonNext]_vars

----------------------------------------------------------------------------
(* The trooper of the first level whose panels have more than one cube      *)
(* (four each): at most MaxPanelCalls attach, detach and reset calls; the   *)
(* first two work on the first panel until it is full or empty.             *)

PanelLevel == MaxLevel + 1

PanelInit ==
    /\ tr = newTrooper(PanelLevel)
    /\ panicked = FALSE
    /\ last = [op |-> "newTrooper", arg |-> PanelLevel,
               pre |-> newTrooper(PanelLevel)]
    /\ calls = 0
    /\ premerge = <<>>
    /\ rt = NoRoundTrip
    /\ hms = NoMonitors
    /\ notes = NoNotes(NoMonitors)
    /\ ems = NoMonitors
    /\ enotes = NoEnergyNotes(NoMonitors)

PanelAttach ==
    /\ calls < MaxPanelCalls
    /\ tr' = trooper_attach(tr)
    /\ last' = [op |-> "attach", arg |-> 0, pre |-> tr]
    /\ calls' = calls + 1
    /\ notes' = attach_notes(tr, hms)
    /\ enotes' = NoEnergyNotes(ems)
    /\ UNCHANGED <<panicked, premerge, rt, hms, ems>>

PanelDetach ==
    /\ calls < MaxPanelCalls
    /\ tr' = trooper_detach(tr)
    /\ last' = [op |-> "detach", arg |-> 0, pre |-> tr]
    /\ calls' = calls + 1
    /\ notes' = detach_notes(tr, hms)
    /\ enotes' = NoEnergyNotes(ems)
    /\ UNCHANGED <<panicked, premerge, rt, hms, ems>>

PanelReset ==
    /\ calls < MaxPanelCalls
    /\ tr' = trooper_reset(tr)
    /\ panicked' = reset_panics(tr)
    /\ last' = [op |-> "reset", arg |-> 0, pre |-> tr]
    /\ calls' = calls + 1
    /\ notes' = reset_notes(tr, hms)
    /\ enotes' = NoEnergyNotes(ems)
    /\ UNCHANGED <<premerge, rt, hms, ems>>

PanelNext == PanelAttach \/ PanelDetach \/ PanelReset

SpecPanel == PanelInit /\ [][PanelNext]_vars

----------------------------------------------------------------------------
(* The energy of the trooper of the player.  Each Call below is one call of *)
(* the trooper with all it does; the actions built from it add the counts   *)
(* of the run (calls and rt).                                               *)

PlayerInit ==
    /\ tr = makePlayer(PlayerLevel)
    /\ panicked = FALSE
    /\ last = [op |-> "newTrooper", arg |-> PlayerLevel,
               pre |-> makePlayer(PlayerLevel)]
    /\ calls = 0
    /\ premerge = <<>>
    /\ rt = NoRoundTrip
    /\ hms = NoMonitors
    /\ notes = NoNotes(NoMonitors)
    /\ ems = NoMonitors
    /\ enotes = NoEnergyNotes(NoMonitors)

UpdateEnergyCall ==
    /\ tr' = updateEnergy(tr)
    /\ panicked' = updateEnergy_panics(tr)
    /\ last' = [op |-> "updateEnergy", arg |-> 0, pre |-> tr]
    /\ enotes' = IF updateEnergy_panics(tr) THEN NoEnergyNotes(ems)
                 ELSE updateEnergy_notes(tr, ems)
    /\ notes' = NoNotes(hms)
    /\ premerge' = <<>>
    /\ UNCHANGED <<hms, ems>>

CloakCall(useCloak) ==
    /\ tr' = cloak(tr, useCloak)
    /\ panicked' = cloak_panics(tr, useCloak)
    /\ last' = [op |-> "cloak", arg |-> IF useCloak THEN 1 ELSE 0, pre |-> tr]
    /\ enotes' = NoEnergyNotes(ems)
    /\ notes' = NoNotes(hms)
    /\ premerge' = <<>>
    /\ UNCHANGED <<hms, ems>>

TeleportCall ==
    /\ tr' = IF teleport_panics(tr) THEN tr ELSE teleport(tr)
    /\ panicked' = teleport_panics(tr)
    /\ last' = [op |-> "teleport", arg |-> 0, pre |-> tr,
                ret |-> teleports(tr)]
    /\ enotes' = IF teleport_panics(tr) THEN NoEnergyNotes(ems)
                 ELSE teleport_notes(tr, ems)
    /\ notes' = NoNotes(hms)
    /\ premerge' = <<>>
    /\ UNCHANGED <<hms, ems>>

AddCloakEnergyCall ==
    /\ tr' = addCloakEnergy(tr)
    /\ last' = [op |-> "addCloakEnergy", arg |-> 0, pre |-> tr]
    /\ enotes' = addCloakEnergy_notes(tr, ems)
    /\ notes' = NoNotes(hms)
    /\ premerge' = <<>>
    /\ UNCHANGED <<panicked, hms, ems>>

ResetEnergyCall ==
    /\ tr' = resetEnergy(tr)
    /\ last' = [op |-> "resetEnergy", arg |-> 0, pre |-> tr]
    /\ enotes' = resetEnergy_notes(tr, ems)
    /\ notes' = NoNotes(hms)
    /\ premerge' = <<>>
    /\ UNCHANGED <<panicked, hms, ems>>

\* One more call of a run of at most max calls.
Spent(max) == ~panicked /\ calls < max /\ calls' = calls + 1

\* The same in a run that keeps no count but that of its calls.
Counted(max) == Spent(max) /\ UNCHANGED rt

UpdateEnergy == Counted(MaxEnergyCalls) /\ UpdateEnergyCall

Cloak == Counted(MaxEnergyCalls) /\ \E useCloak \in BOOLEAN : CloakCall(useCloak)

Teleport == Counted(MaxEnergyCalls) /\ TeleportCall

AddCloakEnergy == Counted(MaxEnergyCalls) /\ AddCloakEnergyCall

ResetEnergy == Counted(MaxEnergyCalls) /\ ResetEnergyCall

EnergyNext == UpdateEnergy \/ Cloak \/ Teleport \/ AddCloakEnergy \/ ResetEnergy

SpecEnergy == PlayerInit /\ [][EnergyNext]_vars

----------------------------------------------------------------------------
(* The recharge of the teleport energy.  updateEnergy and teleport are      *)
(* called freely, cloak and addCloakEnergy at most MaxRechargeCalls times,  *)
(* resetEnergy never.  rt.phase is "off" until a teleport call succeeds,    *)
(* "recharge" from then on, and "asked" from a further teleport call to    *)
(* the next updateEnergy call; rt.up counts the updateEnergy calls made     *)
(* since the latest successful teleport call, as far as temax, and in       *)
(* phase "asked" rt.down is the value rt.up had when teleport was called.   *)

RechargeTick ==
    /\ ~panicked
    /\ UpdateEnergyCall
    /\ rt' = IF rt.phase = "off" THEN rt
             ELSE [phase |-> "recharge",
                   up |-> IF rt.up < tr.temax THEN rt.up + 1 ELSE rt.up,
                   down |-> 0]
    /\ UNCHANGED calls

RechargeTeleport ==
    /\ ~panicked
    /\ TeleportCall
    /\ rt' = IF rt.phase = "off"
             THEN IF teleports(tr) /\ ~teleport_panics(tr)
                  THEN [phase |-> "recharge", up |-> 0, down |-> 0]
                  ELSE rt
             ELSE [phase |-> "asked",
                   up |-> IF teleports(tr) THEN 0 ELSE rt.up,
                   down |-> rt.up]
    /\ UNCHANGED calls

RechargeCloak ==
    Counted(MaxRechargeCalls) /\ \E useCloak \in BOOLEAN : CloakCall(useCloak)

RechargeAddCloakEnergy == Counted(MaxRechargeCalls) /\ AddCloakEnergyCall

RechargeNext ==
    RechargeTick \/ RechargeTeleport \/ RechargeCloak \/ RechargeAddCloakEnergy

SpecRecharge == PlayerInit /\ [][RechargeNext]_vars

----------------------------------------------------------------------------
(* The use of the cloak energy.  updateEnergy is called freely, the other  *)
(* four energy calls at most MaxCloakCalls times.  rt.phase is "cloaked"    *)
(* when the latest call of cloak, addCloakEnergy or resetEnergy left the    *)
(* trooper cloaked, rt.down is the cloak energy it left, and rt.up counts   *)
(* the updateEnergy calls made since, as far as CloakTicks(rt.down).        *)

\* The number of updateEnergy calls that use up the cloak energy e.
CloakTicks(e) == (e + 3) \div 4

\* The count that starts when a call has left the trooper t.
CloakRun(t) ==
    IF t.cloaked THEN [phase |-> "cloaked", up |-> 0, down |-> t.cloakEnergy]
    ELSE NoRoundTrip

CloakedTick ==
    /\ ~panicked
    /\ UpdateEnergyCall
    /\ rt' = IF rt.phase = "cloaked" /\ rt.up < CloakTicks(rt.down)
             THEN [rt EXCEPT !.up = @ + 1] ELSE rt
    /\ UNCHANGED calls

CloakedTeleport == Counted(MaxCloakCalls) /\ TeleportCall

CloakedCloak ==
    /\ Spent(MaxCloakCalls)
    /\ \E useCloak \in BOOLEAN : CloakCall(useCloak)
    /\ rt' = CloakRun(tr')

CloakedAddCloakEnergy ==
    Spent(MaxCloakCalls) /\ AddCloakEnergyCall /\ rt' = CloakRun(tr')

CloakedResetEnergy ==
    Spent(MaxCloakCalls) /\ ResetEnergyCall /\ rt' = CloakRun(tr')

CloakedNext ==
    \/ CloakedTick \/ CloakedTeleport \/ CloakedCloak
    \/ CloakedAddCloakEnergy \/ CloakedResetEnergy

SpecCloaked == PlayerInit /\ [][CloakedNext]_vars

----------------------------------------------------------------------------
(* The trooper of the player in play: health calls, energy calls and the    *)
(* registration of monitors in any order, at most MaxPlayCalls calls of the *)
(* first two kinds.                                                         *)

MonitorEnergy ==
    /\ ~panicked
    /\ \E id \in Monitors, mon \in Mons :
          /\ ems' = monitorEnergy(ems, id, mon)
          /\ last' = [op |-> "monitorEnergy", arg |-> 0, pre |-> tr,
                      id |-> id, mon |-> mon, maps |-> <<hms, ems>>]
    /\ enotes' = NoEnergyNotes(ems')
    /\ notes' = NoNotes(hms)
    /\ premerge' = <<>>
    /\ UNCHANGED <<tr, panicked, calls, rt, hms>>

IgnoreEnergy ==
    /\ ~panicked
    /\ \E id \in Monitors :
          /\ ems' = ignoreEnergy(ems, id)
          /\ last' = [op |-> "ignoreEnergy", arg |-> 0, pre |-> tr,
                      id |-> id, maps |-> <<hms, ems>>]
    /\ enotes' = NoEnergyNotes(ems')
    /\ notes' = NoNotes(hms)
    /\ premerge' = <<>>
    /\ UNCHANGED <<tr, panicked, calls, rt, hms>>

PlayAttach ==
    /\ Counted(MaxPlayCalls)
    /\ tr' = trooper_attach(tr)
    /\ last' = [op |-> "attach", arg |-> 0, pre |-> tr]
    /\ notes' = attach_notes(tr, hms)
    /\ enotes' = NoEnergyNotes(ems)
    /\ UNCHANGED <<panicked, premerge, rt, hms, ems>>

PlayDetach ==
    /\ Counted(MaxPlayCalls)
    /\ tr' = trooper_detach(tr)
    /\ last' = [op |-> "detach", arg |-> 0, pre |-> tr]
    /\ notes' = detach_notes(tr, hms)
    /\ enotes' = NoEnergyNotes(ems)
    /\ UNCHANGED <<panicked, premerge, rt, hms, ems>>

PlayDetachCores ==
    /\ Counted(MaxPlayCalls)
    /\ \E loss \in Losses :
          /\ tr' = trooper_detachCores(tr, loss)
          /\ last' = [op |-> "detachCores", arg |-> loss, pre |-> tr]
          /\ notes' = detachCores_notes(tr', loss, hms)
    /\ enotes' = NoEnergyNotes(ems)
    /\ UNCHANGED <<panicked, premerge, rt, hms, ems>>

PlayReset ==
    /\ Counted(MaxPlayCalls)
    /\ tr' = trooper_reset(tr)
    /\ panicked' = reset_panics(tr)
    /\ last' = [op |-> "reset", arg |-> 0, pre |-> tr]
    /\ notes' = reset_notes(tr, hms)
    /\ enotes' = NoEnergyNotes(ems)
    /\ UNCHANGED <<premerge, rt, hms, ems>>

PlayUpdateEnergy == Counted(MaxPlayCalls) /\ UpdateEnergyCall

PlayCloak ==
    Counted(MaxPlayCalls) /\ \E useCloak \in BOOLEAN : CloakCall(useCloak)

PlayTeleport == Counted(MaxPlayCalls) /\ TeleportCall

PlayAddCloakEnergy == Counted(MaxPlayCalls) /\ AddCloakEnergyCall

PlayResetEnergy == Counted(MaxPlayCalls) /\ ResetEnergyCall

PlayNext ==
    \/ PlayAttach \/ PlayDetach \/ PlayDetachCores \/ PlayReset
    \/ PlayUpdateEnergy \/ PlayCloak \/ PlayTeleport
    \/ PlayAddCloakEnergy \/ PlayResetEnergy
    \/ MonitorHealth \/ IgnoreHealth \/ MonitorEnergy \/ IgnoreEnergy

SpecPlay == PlayerInit /\ [][PlayNext]_vars

----------------------------------------------------------------------------
(* Properties of the health of the trooper. *)

Health == health(tr)[1]

Mid == health(tr)[2]

Max == health(tr)[3]

PreHealth == health(last.pre)[1]

PreMax == health(last.pre)[3]

RECURSIVE sumCmax(_, _)
sumCmax(bits, i) ==
    IF i > Len(bits) THEN 0 ELSE bits[i].cmax + sumCmax(bits, i + 1)

\* No box of the trooper shows anything: no cell, no merged cube, no slab.
NoBoxVisual(t) ==
    \A i \in 1 .. Len(t.bits) :
        /\ t.bits[i].cells = <<>>
        /\ ~t.bits[i].slab
        /\ \A j \in 1 .. Len(t.bits[i].cubes) :
              /\ t.bits[i].cubes[j].cells = <<>>
              /\ ~t.bits[i].cubes[j].slab

AllFull(t) == \A i \in 1 .. Len(t.bits) : t.bits[i].ccnt = t.bits[i].cmax

\* C1: at every level, after every attach, detach and detachCores call on a
\* new trooper, the health that health() returns is at least 0 and at most
\* the max that health() returns.
C1_HealthInRange == 0 <= Health /\ Health <= Max

\* A detachCores call asked for more cells than the trooper had and left 0.
C1_Witness ==
    /\ last.op = "detachCores"
    /\ PreHealth > 0
    /\ last.arg > PreHealth
    /\ Health = 0

\* C2: attach called at health = max, and detach called at health = 0, leave
\* the health and the cell count of every box as they were, and do not
\* panic.
C2_BoundaryCallsChangeNothing ==
    /\ (last.op = "attach" /\ PreHealth = PreMax)
          => Health = PreHealth /\ Counts(tr) = Counts(last.pre) /\ ~panicked
    /\ (last.op = "detach" /\ PreHealth = 0)
          => Health = PreHealth /\ Counts(tr) = Counts(last.pre) /\ ~panicked

\* attach was called on the full trooper.
C2_Witness ==
    /\ last.op = "attach"
    /\ PreHealth = PreMax
    /\ last.pre.neo

\* detach was called on the empty trooper.
C2_WitnessDetach ==
    /\ last.op = "detach"
    /\ PreHealth = 0
    /\ tr.lvl > 0

\* C3: at every level >= 1, one detach called on the merged trooper (neo)
\* leaves neo absent, the first box one cell short of its cmax, every other
\* box at its cmax, and the health at max - 1.
C3_DetachFromNeoRemovesOneCell ==
    (last.op = "detach" /\ last.pre.neo /\ tr.lvl >= 1)
        => /\ ~tr.neo
           /\ tr.bits[1].ccnt = last.pre.bits[1].ccnt - 1
           /\ \A i \in 2 .. Len(tr.bits) : tr.bits[i].ccnt = tr.bits[i].cmax
           /\ Health = Max - 1

\* C4: at every level >= 1, detachCores(loss) with loss > 0 called at health
\* h leaves the health at h - min(loss, h).
C4_DetachCoresRemovesMinLossHealth ==
    (last.op = "detachCores" /\ last.arg > 0 /\ tr.lvl >= 1)
        => Health = PreHealth
                    - (IF last.arg < PreHealth THEN last.arg ELSE PreHealth)

\* C5: in every state of every trooper, neo exists (fullHealth) if and only
\* if the health equals the max.
C5_NeoIffHealthIsMax == fullHealth(tr) <=> (Health = Max)

\* C6: at every level >= 1, the attach call that raises the health to max
\* leaves neo, no visual of any box (no cell, no merged cube, no slab), and
\* every box still at ccnt = cmax.
C6_MergeLeavesNeoAlone ==
    (last.op = "attach" /\ tr.lvl >= 1 /\ PreHealth < PreMax /\ Health = Max)
        => tr.neo /\ NoBoxVisual(tr) /\ AllFull(tr)

\* An attach call completed a level-2 trooper, whose panels were slabs.
C6_Witness ==
    /\ last.op = "attach"
    /\ tr.lvl = 2
    /\ PreHealth = PreMax - 1
    /\ Health = Max
    /\ \E i \in 1 .. 6 : last.pre.bits[i].slab
    /\ tr.neo

\* The call before the latest one was the attach that merged the trooper, and
\* the latest one is the detach that followed it.
DetachAfterMerge == last.op = "detach" /\ premerge # <<>>

C8_RoundTripReturnsToEmpty ==
    (rt.phase \in {"up", "down"} /\ rt.down = rt.up)
        => /\ Health = 0
           /\ tr = trooper_detachCores(newTrooper(tr.lvl), health(newTrooper(tr.lvl))[1])

\* C9: at every level >= 0, reset called in any state ends without a panic
\* and leaves the health at the mid that health() returns, with neo absent.
C9_ResetLeavesMid ==
    last.op = "reset" => ~panicked /\ Health = Mid /\ ~tr.neo

\* C10: at every level >= 0 the new trooper has health = mid =
\* 8 L^3 - 8 (L-1)^3, both for the stored tr.mid and for the mid of health(),
\* and the max of health() is the sum of the cmax of the boxes.
C10_NewTrooperHealthIsMid ==
    last.op = "newTrooper"
        => /\ Health = Mid
           /\ tr.mid = Mid
           /\ Mid = 8 * tr.lvl * tr.lvl * tr.lvl
                    - 8 * (tr.lvl - 1) * (tr.lvl - 1) * (tr.lvl - 1)
           /\ Max = sumCmax(tr.bits, 1)

----------------------------------------------------------------------------
(* Properties of the boxes. *)

BoxInRange(c) == 0 <= c.ccnt /\ c.ccnt <= c.cmax

\* Box c has the cmax, the number of cubes and the cmax of every cube of d.
SameCmax(c, d) ==
    /\ c.cmax = d.cmax
    /\ Len(c.cubes) = Len(d.cubes)
    /\ \A j \in 1 .. Len(c.cubes) : c.cubes[j].cmax = d.cubes[j].cmax

\* C11: in every state every box of the trooper (panel, cube, cube of a
\* panel) has 0 <= ccnt <= cmax, and the boxes and their cmax are those the
\* trooper was made with.
C11_BoxCountsInRange ==
    LET made == constructed[tr.lvl].bits
    IN  /\ Len(tr.bits) = Len(made)
        /\ \A i \in 1 .. Len(tr.bits) :
              /\ BoxInRange(tr.bits[i])
              /\ SameCmax(tr.bits[i], made[i])
              /\ \A j \in 1 .. Len(tr.bits[i].cubes) :
                    BoxInRange(tr.bits[i].cubes[j])

\* A detachCores call has emptied the first panel of a trooper whose cubes
\* are full: both ends of the range are met.
C11_Witness ==
    /\ last.op = "detachCores"
    /\ tr.bits[1].cmax > 0
    /\ tr.bits[1].ccnt = 0
    /\ tr.bits[Len(tr.bits)].ccnt = tr.bits[Len(tr.bits)].cmax

\* C12 as claimed: in every state the center exists if and only if the level
\* is above 0 and neo is absent.
C12_CenterIffNoNeo == tr.center <=> (tr.lvl > 0 /\ ~tr.neo)

\* C12 as amended: in every state the center exists if and only if the level
\* is above 0, whether neo exists or not.
C12_CenterIffLevelAboveZero == tr.center <=> tr.lvl > 0

\* The merged trooper has both neo and the center.
C12_Witness == tr.lvl > 0 /\ tr.neo /\ tr.center /\ last.op = "attach"

\* C13: attach called with health < max adds one to the count of the first
\* box of tr.bits with ccnt < cmax and to no other, and the health grows by
\* one.
C13_AttachAddsToFirstOpenBox ==
    (last.op = "attach" /\ PreHealth < PreMax)
        => /\ \E i \in 1 .. Len(last.pre.bits) :
                 /\ last.pre.bits[i].ccnt < last.pre.bits[i].cmax
                 /\ \A j \in 1 .. i - 1 :
                       last.pre.bits[j].ccnt >= last.pre.bits[j].cmax
                 /\ Counts(tr) = [Counts(last.pre) EXCEPT ![i] = @ + 1]
           /\ Health = PreHealth + 1

----------------------------------------------------------------------------
(* Properties of the health monitors. *)

\* Every registered monitor was called exactly once in the latest call, with
\* the triple health() returns now.
NotifiedOnce ==
    \A id \in DOMAIN hms : notes[id] = << <<hms[id], health(tr)>> >>

\* No registered monitor was called in the latest call.
NotNotified == \A id \in DOMAIN hms : notes[id] = <<>>

\* C15: an attach or detach call that changed a box, and every reset call,
\* called every registered monitor exactly once with the triple health()
\* returns after the call; attach called at health = max and detach called
\* at health = 0 called no monitor.
C15_CallsNotifyOnce ==
    /\ DOMAIN notes = DOMAIN hms
    /\ (last.op \in {"attach", "detach"} /\ tr.bits # last.pre.bits)
          => NotifiedOnce
    /\ last.op = "reset" => NotifiedOnce
    /\ (last.op = "attach" /\ PreHealth = PreMax) => NotNotified
    /\ (last.op = "detach" /\ PreHealth = 0) => NotNotified

\* C16: detachCores(loss) with loss > 0 called every registered monitor
\* exactly once, with the triple health() returns after the last cell was
\* removed; detachCores(loss) with loss <= 0 changed nothing and called no
\* monitor.
C16_DetachCoresNotifiesOnce ==
    /\ (last.op = "detachCores" /\ last.arg > 0) => NotifiedOnce
    /\ (last.op = "detachCores" /\ last.arg <= 0)
          => tr = last.pre /\ NotNotified

\* detachCores removed more than one cell while two monitors were
\* registered.
C16_Witness ==
    /\ last.op = "detachCores"
    /\ last.arg > 1
    /\ DOMAIN hms = Monitors
    /\ Health < PreHealth - 1
    /\ NotifiedOnce

----------------------------------------------------------------------------
(* Properties of cubes and panels. *)

\* The cubes of the trooper: those of tr.bits and those of its panels.
AllCubes(t) ==
    {t.bits[i] : i \in {k \in 1 .. Len(t.bits) : t.bits[k].kind = "cube"}}
        \cup UNION {{t.bits[i].cubes[j] : j \in 1 .. Len(t.bits[i].cubes)} :
                     i \in 1 .. Len(t.bits)}

\* The cells at the first n sorted centers, in the order they were added.
FirstCells(n) == [k \in 1 .. n |-> k]

\* C17: while the program runs and the trooper is not merged (no neo), what
\* a cube shows follows from its count alone: with ccnt = 8 the one merged
\* cube, with ccnt = k < 8 the k cells at the first k sorted centers, with
\* ccnt = 0 nothing - however the count was reached.
C17_CubeCellsFollowCount ==
    (~tr.neo /\ ~panicked)
        => \A c \in AllCubes(tr) :
              c.cells = (IF c.ccnt = c.cmax THEN <<MergedCell>>
                         ELSE FirstCells(c.ccnt))

\* The cube of a panel that was a slab, with no cell shown, shows its first
\* seven cells after one cell was taken from the panel.
C17_Witness ==
    /\ last.op \in {"detach", "detachCores"}
    /\ ~last.pre.neo
    /\ last.pre.bits[1].slab
    /\ last.pre.bits[1].cubes[1].cells = <<>>
    /\ tr.bits[1].cubes[1].ccnt = 7
    /\ tr.bits[1].cubes[1].cells = FirstCells(7)

\* C18: for every cube the trooper comes to hold, detach of the cube with
\* ccnt = 8 returns true and leaves ccnt = 7 and the cells at the first seven
\* sorted centers, without the merged cube; attach of the cube with ccnt = 7
\* returns true and leaves ccnt = 8 and the merged cube alone.
C18_FullCubeDetachAndAttach ==
    \A c \in AllCubes(tr) :
        /\ c.ccnt = 8
              => /\ detaches(c)
                 /\ cbox_detach(c).ccnt = 7
                 /\ cbox_detach(c).cells = FirstCells(7)
        /\ c.ccnt = 7
              => /\ attaches(c)
                 /\ cbox_attach(c).ccnt = 8
                 /\ cbox_attach(c).cells = <<MergedCell>>

\* detach has taken a cell from a full cube of tr.bits, which showed the
\* merged cube.
C18_Witness ==
    /\ last.op = "detach"
    /\ ~last.pre.neo
    /\ \E i \in 1 .. Len(tr.bits) :
          /\ tr.bits[i].kind = "cube"
          /\ last.pre.bits[i].ccnt = 8
          /\ last.pre.bits[i].cells = <<MergedCell>>
          /\ tr.bits[i] = cbox_detach(last.pre.bits[i])
          /\ tr.bits[i].ccnt = 7

\* The panels of the trooper.
Panels(t) == {i \in 1 .. Len(t.bits) : t.bits[i].kind = "panel"}

\* C19 as claimed: in every state the ccnt of every panel is the sum of the
\* ccnt of its cubes.
C19_PanelCountIsSumOfCubes ==
    \A i \in Panels(tr) : tr.bits[i].ccnt = sumCcnt(tr.bits[i].cubes, 1)

\* C19 as amended: in every state the ccnt of every panel that is not full
\* is the sum of the ccnt of its cubes, and every cube of a full panel
\* (ccnt = cmax) has ccnt = 0.
C19_PanelCountIsSumUnlessFull ==
    \A i \in Panels(tr) :
        IF tr.bits[i].ccnt < tr.bits[i].cmax
        THEN tr.bits[i].ccnt = sumCcnt(tr.bits[i].cubes, 1)
        ELSE \A j \in 1 .. Len(tr.bits[i].cubes) : tr.bits[i].cubes[j].ccnt = 0

\* The first panel, of several cubes, is full and a slab, and the second is
\* being filled.
C19_Witness ==
    /\ Len(tr.bits[1].cubes) > 1
    /\ tr.bits[1].ccnt = tr.bits[1].cmax
    /\ tr.bits[1].slab
    /\ tr.bits[2].ccnt > last.pre.bits[2].ccnt
    /\ tr.bits[2].ccnt < tr.bits[2].cmax

\* Cube j of the panel went from p to q by d cells, and no other cube of the
\* panel changed.
OnlyCubeChanged(p, q, j, d) ==
    /\ q.cubes[j].ccnt = p.cubes[j].ccnt + d
    /\ \A k \in 1 .. Len(p.cubes) : k # j => q.cubes[k] = p.cubes[k]

\* C20: an attach that adds a cell to a panel without filling it adds one to
\* exactly one cube of the panel, the first in list order of those with the
\* least ccnt; a detach that takes a cell from a panel that is not full
\* takes one from exactly one cube of the panel, the first in list order
\* with ccnt > 0.
C20_PanelPicksOneCube ==
    \A i \in Panels(tr) :
        LET p == last.pre.bits[i]
            q == tr.bits[i]
        IN  /\ (last.op = "attach" /\ q.ccnt = p.ccnt + 1 /\ q.ccnt < q.cmax)
                  => \E j \in 1 .. Len(p.cubes) :
                        /\ OnlyCubeChanged(p, q, j, 1)
                        /\ p.cubes[j].ccnt < p.cubes[j].cmax
                        /\ \A k \in 1 .. Len(p.cubes) :
                              /\ p.cubes[k].ccnt >= p.cubes[j].ccnt
                              /\ k < j => p.cubes[k].ccnt > p.cubes[j].ccnt
            /\ (last.op = "detach" /\ q.ccnt = p.ccnt - 1 /\ p.ccnt < p.cmax)
                  => \E j \in 1 .. Len(p.cubes) :
                        /\ OnlyCubeChanged(p, q, j, -1)
                        /\ p.cubes[j].ccnt > 0
                        /\ \A k \in 1 .. j - 1 : p.cubes[k].ccnt = 0

\* attach has added a cell to a cube of a panel that is not the first cube,
\* the cubes before it holding more cells.
C20_Witness ==
    /\ last.op = "attach"
    /\ \E j \in 2 .. Len(tr.bits[1].cubes) :
          /\ tr.bits[1].cubes[j].ccnt = last.pre.bits[1].cubes[j].ccnt + 1
          /\ \A k \in 1 .. j - 1 :
                last.pre.bits[1].cubes[k].ccnt > last.pre.bits[1].cubes[j].ccnt
          /\ tr.bits[1].ccnt < tr.bits[1].cmax

----------------------------------------------------------------------------
(* Properties of the energy. *)

\* The latest call left both energies and the cloak flag as they were.
SameCloak ==
    tr.cloakEnergy = last.pre.cloakEnergy /\ tr.cloaked = last.pre.cloaked

\* C23: teleport returns true exactly when the teleport energy is at temax,
\* and then leaves it at 0; called below temax it returns false and leaves
\* the teleport energy as it was; in both cases the cloak energy and the
\* cloak flag stay as they were.
C23_TeleportAllOrNothing ==
    last.op = "teleport"
        => /\ last.ret <=> (last.pre.teleportEnergy = last.pre.temax)
           /\ last.ret => tr.teleportEnergy = 0
           /\ ~last.ret => tr.teleportEnergy = last.pre.teleportEnergy
           /\ SameCloak
           /\ ~panicked

\* teleport has used the full teleport energy while the cloak was on.
C23_Witness ==
    /\ last.op = "teleport"
    /\ last.ret
    /\ last.pre.teleportEnergy = last.pre.temax
    /\ last.pre.cloaked
    /\ tr.teleportEnergy = 0

\* C24: after every sequence of updateEnergy, cloak, teleport,
\* addCloakEnergy and resetEnergy calls on the new trooper of the player,
\* 0 <= cloakEnergy <= cemax and 0 <= teleportEnergy <= temax.
C24_EnergyInRange ==
    /\ 0 <= tr.cloakEnergy /\ tr.cloakEnergy <= tr.cemax
    /\ 0 <= tr.teleportEnergy /\ tr.teleportEnergy <= tr.temax

\* addCloakEnergy was called with less than 100 missing to cemax, the
\* teleport energy being at temax.
C24_Witness ==
    /\ last.op = "addCloakEnergy"
    /\ last.pre.cloakEnergy < last.pre.cemax
    /\ last.pre.cloakEnergy + 100 > last.pre.cemax
    /\ tr.cloakEnergy = tr.cemax
    /\ tr.teleportEnergy = tr.temax

\* C25: cloak(true) sets the cloak flag if the cloak energy is above 0 and
\* leaves it false if the cloak energy is 0; cloak(false) clears the flag;
\* neither changes the cloak energy or the teleport energy.
C25_CloakNeedsEnergy ==
    last.op = "cloak"
        => /\ (last.arg = 1 /\ last.pre.cloakEnergy > 0) => tr.cloaked
           /\ (last.arg = 1 /\ last.pre.cloakEnergy = 0) => ~tr.cloaked
           /\ last.arg = 0 => ~tr.cloaked
           /\ tr.cloakEnergy = last.pre.cloakEnergy
           /\ tr.teleportEnergy = last.pre.teleportEnergy
           /\ ~panicked

\* cloak(true) was called with no cloak energy.
C25_Witness ==
    /\ last.op = "cloak"
    /\ last.arg = 1
    /\ last.pre.cloakEnergy = 0
    /\ last.pre.teleportEnergy > 0
    /\ ~tr.cloaked

\* C26: updateEnergy called with the cloak on lowers the cloak energy by 4,
\* not below 0, and clears the cloak flag exactly when the result is 0;
\* called with the cloak off it leaves the cloak energy as it was.  After
\* every call the cloak is on only with cloak energy above 0.
C26_CloakDrainsByFour ==
    /\ (last.op = "updateEnergy" /\ last.pre.cloaked)
          => /\ tr.cloakEnergy = (IF last.pre.cloakEnergy > 4
                                  THEN last.pre.cloakEnergy - 4 ELSE 0)
             /\ tr.cloaked <=> tr.cloakEnergy # 0
    /\ (last.op = "updateEnergy" /\ ~last.pre.cloaked) => SameCloak
    /\ tr.cloaked => tr.cloakEnergy > 0

\* updateEnergy has used up the last of the cloak energy and cleared the
\* cloak flag.
C26_Witness ==
    /\ last.op = "updateEnergy"
    /\ last.pre.cloaked
    /\ last.pre.cloakEnergy > 0
    /\ tr.cloakEnergy = 0
    /\ ~tr.cloaked

\* C27: addCloakEnergy leaves the cloak energy at min(cloakEnergy + 100,
\* cemax) and the teleport energy and the cloak flag as they were.
C27_AddCloakEnergyAddsHundred ==
    last.op = "addCloakEnergy"
        => /\ tr.cloakEnergy = (IF last.pre.cloakEnergy + 100 < last.pre.cemax
                                THEN last.pre.cloakEnergy + 100
                                ELSE last.pre.cemax)
           /\ tr.teleportEnergy = last.pre.teleportEnergy
           /\ tr.cloaked = last.pre.cloaked

\* addCloakEnergy was called with the cloak on and room for the whole 100.
C27_Witness ==
    /\ last.op = "addCloakEnergy"
    /\ last.pre.cloaked
    /\ last.pre.cloakEnergy + 100 < last.pre.cemax
    /\ tr.cloakEnergy = last.pre.cloakEnergy + 100

----------------------------------------------------------------------------
(* Properties of the fill of a panel. *)

\* The largest difference between the ccnt of two cubes of panel p.
Spread(p) ==
    LET d == {p.cubes[j].ccnt - p.cubes[k].ccnt :
                 j \in 1 .. Len(p.cubes), k \in 1 .. Len(p.cubes)}
    IN  IF d = {} THEN 0 ELSE CHOOSE m \in d : \A n \in d : n <= m

\* C21 as claimed: after every sequence of attach and detach calls, the
\* cubes of a panel of two or more cubes that is not merged differ by at
\* most one in ccnt.
C21_PanelCubesBalanced ==
    \A i \in Panels(tr) :
        (Len(tr.bits[i].cubes) >= 2 /\ tr.bits[i].ccnt < tr.bits[i].cmax)
            => Spread(tr.bits[i]) <= 1

\* C21 as amended: an attach that adds a cell to a panel without filling it
\* leaves the cubes of the panel differing by at most one if they did so
\* before, and by no more than before otherwise; a detach takes its cell
\* from the first cube that has one, whatever the other cubes hold.
C21_AttachKeepsPanelBalanced ==
    \A i \in Panels(tr) :
        LET p == last.pre.bits[i]
            q == tr.bits[i]
        IN  /\ (last.op = "attach" /\ q.ccnt = p.ccnt + 1 /\ q.ccnt < q.cmax)
                  => Spread(q) <= (IF Spread(p) > 1 THEN Spread(p) ELSE 1)
            /\ (last.op = "detach" /\ q.ccnt = p.ccnt - 1 /\ p.ccnt < p.cmax)
                  => \A j \in 1 .. Len(p.cubes) :
                        q.cubes[j].ccnt < p.cubes[j].ccnt
                            => \A k \in 1 .. j - 1 : p.cubes[k].ccnt = 0

\* attach has added a cell to a panel of four cubes that differed by one,
\* and they still differ by one.
C21_Witness ==
    /\ last.op = "attach"
    /\ Len(tr.bits[1].cubes) >= 2
    /\ tr.bits[1].ccnt = last.pre.bits[1].ccnt + 1
    /\ tr.bits[1].ccnt < tr.bits[1].cmax
    /\ Spread(last.pre.bits[1]) = 1
    /\ Spread(tr.bits[1]) = 1

\* C22: for every panel one cell short of full that the trooper comes to
\* hold, the attach of the panel leaves ccnt = cmax, a slab and no cell of
\* any cube shown, and the detach of the panel after it leaves no slab,
\* ccnt = cmax - 1 and every cube with the count it had before the attach.
C22_PanelDetachRestoresCubes ==
    \A i \in Panels(tr) :
        LET p == tr.bits[i]
            q == cbox_attach(p)
            r == cbox_detach(q)
        IN  (p.cmax > 0 /\ p.ccnt = p.cmax - 1)
                => /\ q.ccnt = q.cmax
                   /\ q.slab
                   /\ \A j \in 1 .. Len(q.cubes) : q.cubes[j].cells = <<>>
                   /\ ~r.slab
                   /\ r.ccnt = r.cmax - 1
                   /\ \A j \in 1 .. Len(r.cubes) :
                         r.cubes[j].ccnt = p.cubes[j].ccnt

\* The first panel, of four cubes, was filled cell by cell and is one cell
\* short of full again after a detach.
C22_Witness ==
    /\ last.op = "detach"
    /\ Len(tr.bits[1].cubes) >= 2
    /\ last.pre.bits[1].slab
    /\ ~tr.bits[1].slab
    /\ tr.bits[1].ccnt = tr.bits[1].cmax - 1

\* The last call changed the cloak energy or the teleport energy.
EnergyChanged ==
    \/ tr.cloakEnergy # last.pre.cloakEnergy
    \/ tr.teleportEnergy # last.pre.teleportEnergy

\* Every registered energy monitor was called once, after the change, with
\* what energy() returns.
EnergyNotifiedOnce ==
    \A id \in DOMAIN ems : enotes[id] = << <<ems[id], energy(tr)>> >>

\* C28: a call of updateEnergy, teleport, addCloakEnergy or resetEnergy that
\* changes the cloak energy or the teleport energy calls every registered
\* energy monitor with the values energy() returns after the change.
C28_EnergyChangeNotifies ==
    (/\ ~panicked
     /\ last.op \in {"updateEnergy", "teleport", "addCloakEnergy", "resetEnergy"}
     /\ EnergyChanged)
        => EnergyNotifiedOnce

\* The map now is the map old with mon under id and every other entry as it
\* was.
Registered(now, old, id, mon) ==
    /\ DOMAIN now = DOMAIN old \cup {id}
    /\ now[id] = mon
    /\ \A k \in DOMAIN old \ {id} : now[k] = old[k]

\* The map now is the map old without id and every other entry as it was.
Ignored(now, old, id) ==
    /\ DOMAIN now = DOMAIN old \ {id}
    /\ \A k \in DOMAIN now : now[k] = old[k]

\* The calls q made to monitors went to the monitors the map now holds, at
\* most one call for a key and none for a key or a monitor not in the map.
CallsFollow(q, now) ==
    /\ DOMAIN q = DOMAIN now
    /\ \A k \in DOMAIN q :
          /\ Len(q[k]) <= 1
          /\ \A i \in 1..Len(q[k]) : q[k][i][1] = now[k]

EnergyOps == {"updateEnergy", "cloak", "teleport", "addCloakEnergy", "resetEnergy"}

CapacityOps == {"attach", "detach", "detachCores", "reset"}

\* C30: a call of updateEnergy, cloak, teleport, addCloakEnergy or
\* resetEnergy leaves every box, the merged center and what health() returns
\* as they were and calls no health monitor; a call of attach, detach,
\* detachCores or reset leaves the cloak energy, the teleport energy and the
\* cloak flag as they were and calls no energy monitor.
C30_HealthAndEnergyApart ==
    /\ last.op \in EnergyOps =>
          /\ tr.bits = last.pre.bits
          /\ tr.neo = last.pre.neo
          /\ tr.center = last.pre.center
          /\ health(tr) = health(last.pre)
          /\ \A id \in DOMAIN notes : notes[id] = <<>>
    /\ last.op \in CapacityOps =>
          /\ SameCloak
          /\ tr.teleportEnergy = last.pre.teleportEnergy
          /\ \A id \in DOMAIN enotes : enotes[id] = <<>>

\* resetEnergy refilled both energies of a trooper that had lost cells, with
\* a health monitor and an energy monitor registered.
C30_Witness ==
    /\ last.op = "resetEnergy"
    /\ EnergyChanged
    /\ ~tr.neo
    /\ health(tr)[1] < health(newTrooper(tr.lvl))[1]
    /\ DOMAIN hms # {}
    /\ DOMAIN ems # {}

----------------------------------------------------------------------------
(* Properties of runs of calls. *)

\* The box shows its merged piece: the one part of a full cube, the slab of
\* a full panel.
BoxMerged(c) ==
    IF c.kind = "panel" THEN c.slab ELSE c.cells = <<MergedCell>>

\* The boxes are filled as a prefix: full boxes, then at most one box that is
\* partly filled, then empty boxes.
PrefixFilled(bits) ==
    \E j \in 1 .. Len(bits) :
        /\ \A i \in 1 .. j - 1 : bits[i].ccnt = bits[i].cmax
        /\ \A i \in j + 1 .. Len(bits) : bits[i].ccnt = 0

\* The latest call is the rt.up-th of a run of attach calls on the empty
\* trooper.
AttachRun == rt.phase = "up" /\ last.op = "attach"

\* C31: the k-th attach call in a row on the empty trooper leaves the health
\* at k and the boxes filled as a prefix of tr.bits; a box gets its merged
\* piece in the attach call that fills it and in no other, so that at level 1
\* the first box is merged by the 8th call.
C31_AttachRunFillsPrefix ==
    AttachRun
        => /\ Health = rt.up
           /\ PrefixFilled(tr.bits)
           /\ ~tr.neo =>
                 \A i \in 1 .. Len(tr.bits) :
                     (BoxMerged(tr.bits[i]) /\ ~BoxMerged(last.pre.bits[i]))
                         <=> /\ tr.bits[i].ccnt = tr.bits[i].cmax
                             /\ last.pre.bits[i].ccnt < tr.bits[i].cmax
           /\ (tr.lvl = 1 /\ rt.up <= 9) =>
                 ((\E i \in 1 .. Len(tr.bits) : BoxMerged(tr.bits[i]))
                     <=> rt.up >= 8)

----------------------------------------------------------------------------
(* Properties of the construction. *)

\* The top-level cubes of the trooper.
TopCubes(t) == {i \in 1 .. Len(t.bits) : t.bits[i].kind = "cube"}

\* The locations newTrooper visits at level L, in units of qs.
Grid(L) == {2 * (2 * c - L) : c \in 0 .. L}

\* The number of coordinates of the location at on the outside.
Outside(at, L) ==
    Cardinality({n \in 1 .. 3 : at[n] = 2 * L \/ at[n] = -2 * L})

\* The locations of the cubes of the faces: one coordinate on the outside.
FaceLocations(L) ==
    {at \in Grid(L) \X Grid(L) \X Grid(L) : Outside(at, L) = 1}

\* The (panel, cube) pairs of the trooper.
PanelCubes(t) ==
    {pc \in (1 .. Len(t.bits)) \X (1 .. (t.lvl - 1) * (t.lvl - 1)) :
        t.bits[pc[1]].kind = "panel"}

\* C32: at every level L >= 1 the new trooper holds six panels and then
\* 8 + 12 (L-1) cubes, eight of them at the corners with 1 cell and the
\* others on the edges with 2 cells; every panel holds (L-1)^2 cubes of 4
\* cells, has cmax 8 (L-1)^2 and a count of half its cmax; every location of
\* a face holds the cube of exactly one panel.  Later calls add and remove
\* no box.
C32_ConstructedBoxes ==
    LET L == tr.lvl
        sq == (L - 1) * (L - 1)
    IN  /\ Len(tr.bits) = 6 + 8 + 12 * (L - 1)
        /\ \A i \in 1 .. Len(tr.bits) :
              tr.bits[i].kind = IF i <= 6 THEN "panel" ELSE "cube"
        /\ \A i \in 1 .. 6 :
              /\ Len(tr.bits[i].cubes) = sq
              /\ tr.bits[i].cmax = 8 * sq
        /\ last.op = "newTrooper" =>
              /\ \A at \in FaceLocations(L) :
                    Cardinality({pc \in PanelCubes(tr) :
                                    tr.bits[pc[1]].cubes[pc[2]].at = at}) = 1
              /\ Cardinality({i \in TopCubes(tr) :
                                 /\ tr.bits[i].ccnt = 1
                                 /\ Outside(tr.bits[i].at, L) = 3}) = 8
              /\ Cardinality({i \in TopCubes(tr) :
                                 /\ tr.bits[i].ccnt = 2
                                 /\ Outside(tr.bits[i].at, L) = 2}) = 12 * (L - 1)
              /\ \A i \in 1 .. 6 :
                    /\ 2 * tr.bits[i].ccnt = tr.bits[i].cmax
                    /\ \A j \in 1 .. sq : tr.bits[i].cubes[j].ccnt = 4

\* The new trooper of the first level whose panels hold more than one cube.
C32_Witness ==
    /\ last.op = "newTrooper"
    /\ tr.lvl = MaxLevel + 1
    /\ Len(tr.bits[6].cubes) = 4
    /\ tr.bits[6].ccnt = 16

\* C33: detach on a trooper that is not merged takes its cell from a corner
\* or edge cube as long as one of them holds a cell, and from a panel only
\* when every corner and edge cube is empty.
C33_DetachTakesFromCubesFirst ==
    (last.op = "detach" /\ ~last.pre.neo)
        => \A i \in 1 .. Len(tr.bits) :
              (tr.bits[i].kind = "panel" /\ tr.bits[i].ccnt < last.pre.bits[i].ccnt)
                  => \A j \in TopCubes(last.pre) : last.pre.bits[j].ccnt = 0

\* C34: at every level L >= 1 and from every state the game can reach, a run
\* of attach calls with no other call between them leaves fullHealth() true
\* after at most max - health calls, health read at the start of the run.
C34_AttachRunReachesFullHealth ==
    (rt.phase = "climb" /\ rt.down = 0) => fullHealth(tr)

----------------------------------------------------------------------------
(* Properties of the structure. *)

\* The branches the code is not meant to reach that a call has taken, in any
\* box and any cube of a panel.
Faults(t) ==
    UNION {t.bits[i].faults \cup
           UNION {t.bits[i].cubes[j].faults : j \in 1 .. Len(t.bits[i].cubes)} :
           i \in 1 .. Len(t.bits)}

\* C35: at every level L >= 1 and after every sequence of attach, detach,
\* detachCores and reset calls, no call has reached a 'should never reach
\* here' branch of panel.addCell or panel.removeCell, none has called
\* panel.addCell on a panel without cubes, and none has made cube.addCell or
\* cube.removeCell index outside the centers or the cells of the cube.
C35_NoFaultReached == Faults(tr) = {}

\* A panel of four cubes has been filled and merged and a cell has then been
\* detached from it: addCell and removeCell of panels and of cubes have run.
C35_Witness ==
    /\ tr.lvl = MaxLevel + 1
    /\ last.op = "detach"
    /\ last.pre.bits[1].slab
    /\ tr.bits[1].ccnt = tr.bits[1].cmax - 1
    /\ Faults(tr) = {}

\* C36: at every level L >= 1, reset called in any state leaves the boxes,
\* their cubes and all that they show as newTrooper made them, with the
\* center and without neo; a second reset changes nothing.
C36_ResetRestoresConstructed ==
    last.op = "reset"
        => /\ tr.bits = constructed[tr.lvl].bits
           /\ tr.center /\ ~tr.neo
           /\ tr = constructed[tr.lvl]
           /\ trooper_reset(tr) = tr

\* reset was called on the merged trooper.
C36_Witness ==
    /\ last.op = "reset"
    /\ last.pre.neo
    /\ NoBoxVisual(last.pre)
    /\ tr.bits = constructed[tr.lvl].bits

\* The slots of a box that refer to a part: the cells of a cube, the slab of
\* a panel.
Referenced(c) == Len(c.cells) + (IF c.slab THEN 1 ELSE 0)

\* C37: after every call, each part that was added and not removed is held
\* by one slot: a cube has as many parts as its cells list has entries, a
\* panel one part when it has its slab and none otherwise, the trooper one
\* part each for the center and for neo when it has them; no part was added
\* over another one.
C37_PartsFollowSlots ==
    ~panicked =>
        /\ tr.live = (IF tr.center THEN 1 ELSE 0) + (IF tr.neo THEN 1 ELSE 0)
        /\ \A i \in 1 .. Len(tr.bits) :
              /\ tr.bits[i].live = Referenced(tr.bits[i])
              /\ \A j \in 1 .. Len(tr.bits[i].cubes) :
                    tr.bits[i].cubes[j].live = Referenced(tr.bits[i].cubes[j])

\* A detach call has taken the merged trooper apart: neo was removed, and
\* the center was removed and added again.
C37_Witness ==
    /\ last.op = "detach"
    /\ last.pre.neo /\ last.pre.center /\ last.pre.live = 2
    /\ tr.center /\ ~tr.neo /\ tr.live = 1
    /\ \E i \in 1 .. Len(tr.bits) : tr.bits[i].live > 0

----------------------------------------------------------------------------
(* Properties of the energy over runs of updateEnergy calls *)

\* C38: every updateEnergy call raises the teleport energy by exactly 1
\* while it is below temax and leaves it at temax, never above; after a
\* teleport call that succeeded, and without resetEnergy, the teleport
\* energy is the number of updateEnergy calls made since, so that a
\* teleport call made after fewer than temax of them returns false and one
\* made once temax of them have been made returns true.
C38_TeleportRecharges ==
    /\ tr.teleportEnergy <= tr.temax
    /\ last.op = "updateEnergy" =>
          tr.teleportEnergy = IF last.pre.teleportEnergy < tr.temax
                              THEN last.pre.teleportEnergy + 1
                              ELSE tr.temax
    /\ rt.phase # "off" => tr.teleportEnergy = rt.up
    /\ (rt.phase = "asked" /\ last.op = "teleport") =>
          (last.ret <=> rt.down >= tr.temax)

\* The teleport call made when exactly temax updateEnergy calls have
\* followed a successful teleport call, with the cloak used in between.
C38_Witness ==
    /\ rt.phase = "asked"
    /\ last.op = "teleport"
    /\ last.ret
    /\ rt.down = tr.temax
    /\ calls > 0

\* C39: when a call has left the trooper cloaked with the cloak energy e and
\* no cloak, addCloakEnergy or resetEnergy call follows, the trooper stays
\* cloaked for the first CloakTicks(e) - 1 updateEnergy calls, each using 4
\* of the energy, and after CloakTicks(e) of them, and after all later
\* ones, the trooper is not cloaked and its cloak energy is 0.
C39_CloakExpires ==
    rt.phase = "cloaked" =>
        IF rt.up < CloakTicks(rt.down)
        THEN tr.cloaked /\ tr.cloakEnergy = rt.down - 4 * rt.up
        ELSE ~tr.cloaked /\ tr.cloakEnergy = 0

\* An updateEnergy call on the trooper whose cloak, switched on a second
\* time with what the first use had left, has run out.
C39_Witness ==
    /\ rt.phase = "cloaked"
    /\ rt.down > 0
    /\ rt.down < 100
    /\ rt.up = CloakTicks(rt.down)
    /\ last.op = "updateEnergy"
    /\ ~last.pre.cloaked

----------------------------------------------------------------------------
(* Properties of the order of the centers *)

\* The axis of the normal of the panel p: the one its location is off the
\* origin on.
NormalAxis(p) == CHOOSE n \in 1 .. 3 : p.at[n] # 0

\* The list s holds each of the eight center numbers once.
AllCenters(s) == Len(s) = 8 /\ {s[k] : k \in 1 .. 8} = 1 .. 8

\* The centers of every cube of the trooper t are in order: those of a
\* corner or edge cube in non-decreasing squared distance from the origin,
\* those of a cube of a panel in non-decreasing squared distance along the
\* normal of the panel, the four on the side of the origin first.
CentersOrdered(t) ==
    /\ \A i \in TopCubes(t) :
          LET c == t.bits[i]
              d(k) == csort_Dtoc(centerAt(c.at, c.centers[k]))
          IN  AllCenters(c.centers) /\ \A k \in 1 .. 7 : d(k) <= d(k + 1)
    /\ \A pc \in PanelCubes(t) :
          LET p == t.bits[pc[1]]
              c == p.cubes[pc[2]]
              n == NormalAxis(p)
              d(k) == centerAt(c.at, c.centers[k])[n]
                          * centerAt(c.at, c.centers[k])[n]
          IN  /\ AllCenters(c.centers)
              /\ \A k \in 1 .. 7 : d(k) <= d(k + 1)
              /\ \A k \in 1 .. 4 : d(k) < c.at[n] * c.at[n]
              /\ \A k \in 5 .. 8 : d(k) > c.at[n] * c.at[n]

\* C40: the new trooper has the centers of every cube in order (for a
\* corner or edge cube by the distance from the origin, for a cube of a
\* panel by the distance along the normal of the panel, so that its first
\* four centers are those nearer the origin); whatever attach, detach,
\* detachCores and reset calls (and the merge and trash calls they make)
\* came since, every cube has its centers in the order the construction
\* gave them, and the cells it shows are at the first centers of that order.
C40_CentersOrderedOnce ==
    ~panicked =>
        /\ last.op = "newTrooper" => CentersOrdered(tr)
        /\ \A i \in TopCubes(tr) :
              LET c == tr.bits[i]
              IN  /\ c.centers = constructed[tr.lvl].bits[i].centers
                  /\ c.cells \in {<<MergedCell>>, FirstCells(Len(c.cells))}
        /\ \A pc \in PanelCubes(tr) :
              LET c == tr.bits[pc[1]].cubes[pc[2]]
              IN  /\ c.centers
                        = constructed[tr.lvl].bits[pc[1]].cubes[pc[2]].centers
                  /\ c.cells \in {<<MergedCell>>, FirstCells(Len(c.cells))}

\* A detach call has taken a cell from the first panel, which was a slab:
\* the first cube of the panel shows the cells of its first seven centers,
\* while the cubes of the panel opposite have the four centers newCube
\* lists last, those nearer the origin, as the first of their order.
C40_Witness ==
    /\ last.op = "detach"
    /\ last.pre.bits[1].slab
    /\ tr.bits[1].cubes[1].cells = FirstCells(7)
    /\ tr.bits[2].at[1] < 0
    /\ \A j \in 1 .. Len(tr.bits[2].cubes) :
          {tr.bits[2].cubes[j].centers[k] : k \in 1 .. 4} = 5 .. 8
    /\ \E i \in TopCubes(tr) : tr.bits[i].centers # FirstCells(8)
====
